---- MODULE Spec2Model ----
(***************************************************************************)
(* LoanCentral: the comment-driven loan ledger of loan_central_bot.py.     *)
(*                                                                         *)
(* The state is the two PostgreSQL tables (loans, users), the SERIAL       *)
(* sequence behind loans.id, the confirm replies the bot has posted (a     *)
(* Refund is a reply to one of them), and the bot's reply to the comment   *)
(* last consumed with the message it sent to the moderators, if any.       *)
(*                                                                         *)
(* Three specifications share that state.                                  *)
(*   Spec        the commands, one step per handler call.                  *)
(*   SpecTxn     the three mutating handlers statement by statement, each  *)
(*               on its own store connection, two connections at a time.   *)
(*   SpecWorker  the two monitor loops with their streams, calling the     *)
(*               handlers of Spec; FairSpecWorker adds that the pause of   *)
(*               the except clause ends.                                   *)
(*                                                                         *)
(* In Spec and SpecWorker the comments are handled one at a time by one    *)
(* worker, so loans are inserted in the order of their ids and             *)
(* date_created grows with id.  loans.loan_id holds the second of creation *)
(* and is UNIQUE: a Confirm in the second of an earlier one fails at its   *)
(* INSERT.  The clock is not part of the state; that failure is one of the *)
(* store errors a Confirm may meet (fault "dberror").                      *)
(*                                                                         *)
(* Money is exact (Decimal / NUMERIC).  An amount is a natural number of   *)
(* half cents (0.005), so that the two-decimal formatting of the confirm   *)
(* reply, which is what a Refund parses back, is a real rounding.          *)
(***************************************************************************)
EXTENDS Integers, FiniteSets, Sequences, TLC

\* ---------------------------------------------------------------- bounds
\* values the SERIAL sequence may hand out (a failed INSERT burns one)
MaxId == 1
\* cap on a loan's amount_repaid, in half cents
MaxRepaid == 1
\* the same cap where the commands run statement by statement: one cent,
\* the smallest principal the confirm reply prints unrounded
MaxTxnRepaid == 2
\* comments published in the subreddit while the monitors run
MaxListing == 2
\* posts published in the subreddit while the monitors run
MaxPosts == 1

\* ---------------------------------------------------------------- inputs
\* comment.author.name of the comments consumed
Authors == {"alice", "Bob"}
\* the token after /u/ in a $confirm: any run of non-blank characters
\* (one well-formed name, one with a trailing dot)
LenderTokens == {"Bob", "alice."}
\* the currency token, matched case-insensitively
CurrencyTokens == {"USD", "eur"}
\* amounts a command may carry, in half cents: 0, 0.005, 0.01
Amounts == {0, 1, 2}
\* the loan-id token of a $paid_with_id
IdTokens == 1..MaxId
\* how the store behaves during one command
Faults == {"none", "noconn", "dberror"}

\* str.lower() on the names that occur
Lower(s) ==
  CASE s = "Bob" -> "bob"
    [] OTHER -> s

\* str.upper() on the currency tokens that occur
Upper(s) ==
  CASE s = "eur" -> "EUR"
    [] s = "usd" -> "USD"
    [] OTHER -> s

\* f"{amount:.2f}" of a Decimal: round half to even at the cent.
\* n is in half cents; the result is the printed value, in half cents.
Fmt2f(n) ==
  LET q == n \div 2
  IN  IF n % 2 = 0 THEN n
      ELSE IF q % 2 = 0 THEN 2 * q ELSE 2 * (q + 1)

\* the lender group of the refund pattern, [^\s\.]+ : the name up to a dot
UpToDot(s) ==
  CASE s = "alice." -> "alice"
    [] OTHER -> s

\* GREATEST(a, b) of PostgreSQL
GREATEST(a, b) == IF a >= b THEN a ELSE b

VARIABLES
  loans,        \* table loans: id -> row
  users,        \* table users: username -> row
  nextId,       \* next value of the SERIAL sequence of loans.id
  botComments,  \* confirm replies the bot has posted
  modmail,      \* the loan the handler of the last comment told the moderators of
  reply,        \* what the handler of the last comment answered
  conns,        \* store connections: position and uncommitted writes of each
  listing,      \* per stream: what was published in the subreddit, oldest first
  cursor,       \* per stream: how many items of the listing the worker is past
  worker,       \* per stream: where its monitor loop is
  handled       \* per stream and item: how often the loop body ran on it

\* the variables of the two monitor loops
svars == <<listing, cursor, worker, handled>>

vars == <<loans, users, nextId, botComments, modmail, reply, conns, svars>>

\* column defaults of table users
NewUser ==
  [loans_as_borrower |-> 0, loans_as_lender |-> 0,
   amount_borrowed |-> 0, amount_lent |-> 0, amount_repaid |-> 0,
   unpaid_loans |-> 0, unpaid_amount |-> 0]

\* a users row as a reader sees it: a missing row reads as all zeros
Row(u, name) == IF name \in DOMAIN u THEN u[name] ELSE NewUser

\* the handler returned without calling comment.reply
NoReply == "none"

\* the handler returned without calling subreddit.message
NoModMessage == {}

\* subreddit.stream.comments and subreddit.stream.submissions
Streams == {"comments", "submissions"}

\* the store connections a handler may hold: get_db_connection() opens a
\* new one for every command; two are open at once only when two instances
\* of the bot run against the same database
Conns == {"c1", "c2"}

\* a connection with no transaction in progress
Idle ==
  [pc |-> "idle", kind |-> "none", lender |-> "", borrower |-> "",
   id |-> 0, amount |-> 0, currency |-> "", loan_amount |-> 0,
   new_repaid |-> 0, new_status |-> "",
   wl |-> << >>, wu |-> << >>]

Init ==
  /\ loans = << >>
  /\ users = << >>
  /\ nextId = 1
  /\ botComments = {}
  /\ modmail = NoModMessage
  /\ reply = NoReply
  /\ conns = [p \in Conns |-> Idle]
  /\ listing = [k \in Streams |-> << >>]
  /\ cursor = [k \in Streams |-> 0]
  /\ worker = [k \in Streams |-> "streaming"]
  /\ handled = [k \in Streams |-> << >>]

\* ------------------------------------------------------- SQL statements
\* INSERT INTO loans (...) VALUES (..., 'confirmed') RETURNING id;
\* amount_repaid takes its column default 0
InsertLoan(l, id, lender, borrower, amount, currency) ==
  (id :> [lender |-> lender, borrower |-> borrower,
          amount |-> amount, currency |-> currency,
          date_created |-> id, status |-> "confirmed",
          amount_repaid |-> 0]) @@ l

\* faulty variant: the lender upsert with the borrower's amount column
UpsertLenderWrongColumn(u, lender, amount) ==
  LET old == Row(u, lender)
  IN  (lender :> [old EXCEPT !.loans_as_lender = @ + 1,
                             !.amount_borrowed = @ + amount]) @@ u

\* INSERT INTO users (username, loans_as_lender, amount_lent) VALUES (.., 1, amount)
\* ON CONFLICT (username) DO UPDATE SET loans_as_lender + 1, amount_lent + amount
UpsertLender(u, lender, amount) ==
  LET old == Row(u, lender)
  IN  (lender :> [old EXCEPT !.loans_as_lender = @ + 1,
                             !.amount_lent = @ + amount]) @@ u

\* faulty variant: the borrower columns changed by a plain UPDATE, which
\* creates no row
UpsertBorrowerUpdateOnly(u, borrower, amount) ==
  IF borrower \in DOMAIN u
  THEN [u EXCEPT ![borrower].loans_as_borrower = @ + 1,
                 ![borrower].amount_borrowed = @ + amount]
  ELSE u

\* the same upsert for the borrower columns
UpsertBorrower(u, borrower, amount) ==
  LET old == Row(u, borrower)
  IN  (borrower :> [old EXCEPT !.loans_as_borrower = @ + 1,
                               !.amount_borrowed = @ + amount]) @@ u

\* faulty variant: new_status with > in place of >=
NewStatusStrict(new_repaid_amount, loan_amount) ==
  IF new_repaid_amount > loan_amount THEN "repaid" ELSE "partially_repaid"

\* new_status of process_paid_command
NewStatus(new_repaid_amount, loan_amount) ==
  IF new_repaid_amount >= loan_amount THEN "repaid" ELSE "partially_repaid"

\* faulty variant: the loan UPDATE that stores the status but not the amount
UpdateLoanPaidStatusOnly(l, id, new_repaid_amount, new_status) ==
  [l EXCEPT ![id].status = new_status]

\* UPDATE loans SET amount_repaid = .., status = .. WHERE id = ..
UpdateLoanPaid(l, id, new_repaid_amount, new_status) ==
  [l EXCEPT ![id].amount_repaid = new_repaid_amount,
            ![id].status = new_status]

\* faulty variant: the borrower's amount_repaid set to the payment, not raised by it
AddRepaidOverwrite(u, borrower, amount_paid) ==
  IF borrower \in DOMAIN u
  THEN [u EXCEPT ![borrower].amount_repaid = amount_paid]
  ELSE u

\* UPDATE users SET amount_repaid = amount_repaid + paid WHERE username = borrower
\* (an UPDATE of a missing row changes nothing)
AddRepaid(u, borrower, amount_paid) ==
  IF borrower \in DOMAIN u
  THEN [u EXCEPT ![borrower].amount_repaid = @ + amount_paid]
  ELSE u

\* faulty variant: the unpaid decrement without GREATEST(.., 0)
DecUnpaidUnclamped(u, borrower, loan_amount) ==
  IF borrower \in DOMAIN u
  THEN [u EXCEPT ![borrower].unpaid_loans = @ - 1,
                 ![borrower].unpaid_amount = @ - loan_amount]
  ELSE u

\* UPDATE users SET unpaid_loans = GREATEST(unpaid_loans - 1, 0),
\*                  unpaid_amount = GREATEST(unpaid_amount - amount, 0)
DecUnpaid(u, borrower, loan_amount) ==
  IF borrower \in DOMAIN u
  THEN [u EXCEPT ![borrower].unpaid_loans = GREATEST(@ - 1, 0),
                 ![borrower].unpaid_amount = GREATEST(@ - loan_amount, 0)]
  ELSE u

\* SELECT id FROM loans WHERE lender = .. AND borrower = .. AND amount = ..
\* AND currency = ..   (the rows the refund lookup matches)
RefundMatches(l, lender, borrower, amount, currency) ==
  {id \in DOMAIN l : /\ l[id].lender = lender
                     /\ l[id].borrower = borrower
                     /\ l[id].amount = amount
                     /\ l[id].currency = currency}

\* ... ORDER BY date_created DESC LIMIT 1
MostRecent(l, ids) ==
  CHOOSE id \in ids : \A other \in ids : l[other].date_created <= l[id].date_created

\* faulty variant: the refund that deletes the loan row
UpdateLoanRefundedDeletes(l, id) == [x \in DOMAIN l \ {id} |-> l[x]]

\* UPDATE loans SET status = 'refunded' WHERE id = ..
UpdateLoanRefunded(l, id) == [l EXCEPT ![id].status = "refunded"]

\* faulty variant: the lender decrement that forgets amount_lent
DecLenderCountOnly(u, lender, amount) ==
  IF lender \in DOMAIN u
  THEN [u EXCEPT ![lender].loans_as_lender = GREATEST(@ - 1, 0)]
  ELSE u

\* UPDATE users SET loans_as_lender = GREATEST(loans_as_lender - 1, 0),
\*                  amount_lent = GREATEST(amount_lent - amount, 0)
DecLender(u, lender, amount) ==
  IF lender \in DOMAIN u
  THEN [u EXCEPT ![lender].loans_as_lender = GREATEST(@ - 1, 0),
                 ![lender].amount_lent = GREATEST(@ - amount, 0)]
  ELSE u

\* UPDATE users SET loans_as_borrower = GREATEST(loans_as_borrower - 1, 0),
\*                  amount_borrowed = GREATEST(amount_borrowed - amount, 0)
DecBorrower(u, borrower, amount) ==
  IF borrower \in DOMAIN u
  THEN [u EXCEPT ![borrower].loans_as_borrower = GREATEST(@ - 1, 0),
                 ![borrower].amount_borrowed = GREATEST(@ - amount, 0)]
  ELSE u

\* ------------------------------------------------------------- handlers
\* the text of the confirm reply, as far as the refund pattern reads it:
\* "u/{borrower} has confirmed receiving {amount:.2f} {currency} from u/{lender}."
ConfirmReply(borrower, amount, currency, lender) ==
  [borrower |-> borrower, amount |-> Fmt2f(amount),
   currency |-> currency, lender |-> lender]

\* $confirm /u/<token> <amt> <cur> by author
process_confirm_command(author, token, amt, cur, fault, delivered) ==
  LET borrower == Lower(author)
      lender == Lower(token)
      currency == Upper(cur)
  IN  /\ modmail' = NoModMessage
      /\ IF fault = "noconn"
         THEN /\ reply' = NoReply
              /\ UNCHANGED <<loans, users, nextId, botComments>>
         ELSE /\ nextId <= MaxId
              /\ nextId' = nextId + 1
              /\ IF fault = "dberror"
                 THEN /\ reply' = NoReply
                      /\ UNCHANGED <<loans, users, botComments>>
                 ELSE /\ loans' = InsertLoan(loans, nextId, lender, borrower,
                                             amt, currency)
                      /\ users' = UpsertBorrower(UpsertLender(users, lender, amt),
                                                 borrower, amt)
                      /\ reply' = "confirmed"
                      /\ botComments' =
                           IF delivered
                           THEN botComments \cup
                                  {ConfirmReply(borrower, amt, currency, lender)}
                           ELSE botComments

\* faulty variant: the lookup ignores who the lender is
SelectLoanAnyLender(l, idtok, lender) == idtok \in DOMAIN l

\* SELECT ... FROM loans WHERE id = %s AND lender = %s finds a row
SelectLoan(l, idtok, lender) ==
  idtok \in DOMAIN l /\ l[idtok].lender = lender

\* faulty variant: every currency is taken for the loan's currency
CurrencyMismatchNever(loan_currency, currency) == FALSE

\* if loan_currency != currency
CurrencyMismatch(loan_currency, currency) == loan_currency # currency

\* $paid_with_id <idtok> <amt> <cur> by author
process_paid_command(author, idtok, amt, cur, fault) ==
  LET lender == Lower(author)
      currency == Upper(cur)
      found == SelectLoan(loans, idtok, lender)
  IN  /\ modmail' = NoModMessage
      /\ UNCHANGED <<nextId, botComments>>
      /\ IF fault # "none"
         THEN /\ reply' = NoReply
              /\ UNCHANGED <<loans, users>>
         ELSE IF ~found
         THEN /\ reply' = "err_notfound"
              /\ UNCHANGED <<loans, users>>
         ELSE IF CurrencyMismatch(loans[idtok].currency, currency)
         THEN /\ reply' = "err_currency"
              /\ UNCHANGED <<loans, users>>
         ELSE LET borrower == loans[idtok].borrower
                  loan_amount == loans[idtok].amount
                  already_repaid == loans[idtok].amount_repaid
                  new_repaid_amount == already_repaid + amt
                  new_status == NewStatus(new_repaid_amount, loan_amount)
                  u1 == AddRepaid(users, borrower, amt)
              IN  /\ new_repaid_amount <= MaxRepaid
                  /\ loans' = UpdateLoanPaid(loans, idtok, new_repaid_amount,
                                             new_status)
                  /\ users' = IF new_status = "repaid"
                              THEN DecUnpaid(u1, borrower, loan_amount)
                              ELSE u1
                  /\ reply' = "paid"

\* a comment that is not a confirm reply of the bot
NoParent == [borrower |-> "", amount |-> 0, currency |-> "", lender |-> ""]

\* faulty variant: anybody passes for the lender
AuthorIsNotLenderNever(author, lender) == FALSE

\* if comment.author.name.lower() != lender
AuthorIsNotLender(author, lender) == Lower(author) # lender

\* subreddit.message(subject, message) comes after comment.reply(..) in the
\* try block of process_refund_command: it runs when the reply went out,
\* and is skipped when the reply raised
ModMessage(loan_id, delivered) ==
  IF delivered THEN {loan_id} ELSE NoModMessage

\* a comment containing "refunded", by author, in reply to parent
process_refund_command(author, parent, fault) ==
  LET borrower == Lower(parent.borrower)
      amount == parent.amount
      currency == parent.currency
      lender == Lower(UpToDot(parent.lender))
      matches == RefundMatches(loans, lender, borrower, amount, currency)
  IN  /\ UNCHANGED <<nextId, botComments>>
      /\ IF parent = NoParent
         THEN /\ reply' = NoReply
              /\ modmail' = NoModMessage
              /\ UNCHANGED <<loans, users>>
         ELSE IF AuthorIsNotLender(author, lender)
         THEN /\ reply' = "err_notlender"
              /\ modmail' = NoModMessage
              /\ UNCHANGED <<loans, users>>
         ELSE IF fault # "none"
         THEN /\ reply' = NoReply
              /\ modmail' = NoModMessage
              /\ UNCHANGED <<loans, users>>
         ELSE IF matches = {}
         THEN /\ reply' = "err_nomatch"
              /\ modmail' = NoModMessage
              /\ UNCHANGED <<loans, users>>
         ELSE LET loan_id == MostRecent(loans, matches)
              IN  /\ loans' = UpdateLoanRefunded(loans, loan_id)
                  /\ users' = DecBorrower(DecLender(users, lender, amount),
                                          borrower, amount)
                  /\ reply' = "refunded"
                  /\ \E delivered \in BOOLEAN :
                       modmail' = ModMessage(loan_id, delivered)

\* One comment of the stream reaches its handler.  A handler whose store
\* fails returns before it reads any field of the command, so the failing
\* runs are taken once per fault and not once per command text.
SomeAuthor == CHOOSE a \in Authors : TRUE
SomeToken == CHOOSE t \in LenderTokens : TRUE
SomeAmount == CHOOSE n \in Amounts : TRUE
SomeCurrency == CHOOSE c \in CurrencyTokens : TRUE

Confirm ==
  /\ UNCHANGED <<conns, svars>>
  /\ \/ \E author \in Authors, token \in LenderTokens, amt \in Amounts,
           cur \in CurrencyTokens, delivered \in BOOLEAN :
          process_confirm_command(author, token, amt, cur, "none", delivered)
     \/ \E fault \in Faults \ {"none"} :
          process_confirm_command(SomeAuthor, SomeToken, SomeAmount, SomeCurrency,
                                  fault, FALSE)

Paid ==
  /\ UNCHANGED <<conns, svars>>
  /\ \/ \E author \in Authors, idtok \in IdTokens, amt \in Amounts,
           cur \in CurrencyTokens :
          process_paid_command(author, idtok, amt, cur, "none")
     \/ \E fault \in Faults \ {"none"} :
          process_paid_command(SomeAuthor, 1, SomeAmount, SomeCurrency, fault)

Refund ==
  /\ UNCHANGED <<conns, svars>>
  /\ \/ \E author \in Authors, parent \in botComments \cup {NoParent} :
          process_refund_command(author, parent, "none")
     \/ \E author \in Authors, parent \in botComments,
           fault \in Faults \ {"none"} :
          process_refund_command(author, parent, fault)

Next == Confirm \/ Paid \/ Refund

Spec == Init /\ [][Next]_vars

\* ------------------------------------------- transactions, statement by
\* statement.  The handlers above are the commands as one step each; here a
\* command is its connection's statements in program order, under
\* PostgreSQL's default isolation (read committed): a statement sees the
\* committed rows and the connection's own writes, a write waits while
\* another connection holds an uncommitted write of the same row, and
\* nothing a connection wrote is visible to others before its commit.

\* what the statements of connection c see of loans and of users
ViewLoans(c) == c.wl @@ loans
ViewUsers(c) == c.wu @@ users

\* another connection holds an uncommitted write of the row
LoanLocked(p, id) == \E q \in Conns \ {p} : id \in DOMAIN conns[q].wl
UserLocked(p, name) == \E q \in Conns \ {p} : name \in DOMAIN conns[q].wu

\* the uncommitted writes w after a statement turned the view into new at key
Written(w, new, key) ==
  IF key \in DOMAIN new THEN (key :> new[key]) @@ w ELSE w

\* A command opens a connection of its own; which of the two it gets makes
\* no difference, so it is the first that is not in use.
Free(p) ==
  /\ conns[p].pc = "idle"
  /\ p = "c2" => conns["c1"].pc # "idle"

\* conn.commit(): the connection's writes become the committed rows
CommitLoans(l, c) == c.wl @@ l
CommitUsers(u, c) == c.wu @@ u

\* faulty variant: a rollback that keeps the loan rows written so far
RollbackLoansKeeps(l, c) == c.wl @@ l

\* conn.rollback(): the connection's writes are dropped
RollbackLoans(l, c) == l
RollbackUsers(u, c) == u

\* process_confirm_command up to its INSERT INTO loans
TxConfirmInsert(p, author, token, amt, cur) ==
  LET borrower == Lower(author)
      lender == Lower(token)
      currency == Upper(cur)
  IN  /\ Free(p)
      /\ nextId <= MaxId
      /\ nextId' = nextId + 1
      /\ conns' = [conns EXCEPT ![p] =
           [Idle EXCEPT !.pc = "c_lender", !.kind = "confirm",
                        !.lender = lender, !.borrower = borrower,
                        !.id = nextId, !.amount = amt,
                        !.currency = currency,
                        !.wl = InsertLoan(<< >>, nextId, lender, borrower,
                                          amt, currency)]]
      /\ UNCHANGED <<loans, users, botComments, modmail, reply, svars>>

\* the lender upsert of process_confirm_command
TxConfirmLender(p) ==
  LET c == conns[p]
  IN  /\ c.pc = "c_lender"
      /\ ~UserLocked(p, c.lender)
      /\ conns' = [conns EXCEPT ![p].pc = "c_borrower",
                                ![p].wu = Written(c.wu,
                                   UpsertLender(ViewUsers(c), c.lender, c.amount),
                                   c.lender)]
      /\ UNCHANGED <<loans, users, nextId, botComments, modmail, reply, svars>>

\* the borrower upsert of process_confirm_command
TxConfirmBorrower(p) ==
  LET c == conns[p]
  IN  /\ c.pc = "c_borrower"
      /\ ~UserLocked(p, c.borrower)
      /\ conns' = [conns EXCEPT ![p].pc = "commit",
                                ![p].wu = Written(c.wu,
                                   UpsertBorrower(ViewUsers(c), c.borrower, c.amount),
                                   c.borrower)]
      /\ UNCHANGED <<loans, users, nextId, botComments, modmail, reply, svars>>

\* process_paid_command up to the end of its SELECT and its two tests
TxPaidSelect(p, author, idtok, amt, cur) ==
  LET lender == Lower(author)
      currency == Upper(cur)
      l == ViewLoans(conns[p])
  IN  /\ Free(p)
      /\ UNCHANGED <<loans, users, nextId, botComments, svars>>
      /\ IF ~SelectLoan(l, idtok, lender)
         THEN reply' = "err_notfound" /\ modmail' = NoModMessage /\ UNCHANGED conns
         ELSE IF CurrencyMismatch(l[idtok].currency, currency)
         THEN reply' = "err_currency" /\ modmail' = NoModMessage /\ UNCHANGED conns
         ELSE LET new_repaid_amount == l[idtok].amount_repaid + amt
              IN  /\ new_repaid_amount <= MaxTxnRepaid
                  /\ conns' = [conns EXCEPT ![p] =
                       [Idle EXCEPT !.pc = "p_loan", !.kind = "paid",
                                    !.lender = lender,
                                    !.borrower = l[idtok].borrower,
                                    !.id = idtok, !.amount = amt,
                                    !.currency = currency,
                                    !.loan_amount = l[idtok].amount,
                                    !.new_repaid = new_repaid_amount,
                                    !.new_status =
                                       NewStatus(new_repaid_amount,
                                                 l[idtok].amount)]]
                  /\ UNCHANGED <<reply, modmail>>

\* UPDATE loans SET amount_repaid = %s, status = %s of process_paid_command
TxPaidLoan(p) ==
  LET c == conns[p]
  IN  /\ c.pc = "p_loan"
      /\ ~LoanLocked(p, c.id)
      /\ conns' = [conns EXCEPT ![p].pc = "p_user",
                                ![p].wl = Written(c.wl,
                                   UpdateLoanPaid(ViewLoans(c), c.id,
                                                  c.new_repaid, c.new_status),
                                   c.id)]
      /\ UNCHANGED <<loans, users, nextId, botComments, modmail, reply, svars>>

\* UPDATE users SET amount_repaid = amount_repaid + %s
TxPaidUser(p) ==
  LET c == conns[p]
  IN  /\ c.pc = "p_user"
      /\ ~UserLocked(p, c.borrower)
      /\ Row(ViewUsers(c), c.borrower).amount_repaid + c.amount
           <= MaxTxnRepaid
      /\ conns' = [conns EXCEPT
                     ![p].pc = IF c.new_status = "repaid" THEN "p_unpaid"
                               ELSE "commit",
                     ![p].wu = Written(c.wu,
                                 AddRepaid(ViewUsers(c), c.borrower, c.amount),
                                 c.borrower)]
      /\ UNCHANGED <<loans, users, nextId, botComments, modmail, reply, svars>>

\* if new_status == 'repaid': UPDATE users SET unpaid_loans ..., unpaid_amount ...
TxPaidUnpaid(p) ==
  LET c == conns[p]
  IN  /\ c.pc = "p_unpaid"
      /\ conns' = [conns EXCEPT ![p].pc = "commit",
                                ![p].wu = Written(c.wu,
                                   DecUnpaid(ViewUsers(c), c.borrower,
                                             c.loan_amount),
                                   c.borrower)]
      /\ UNCHANGED <<loans, users, nextId, botComments, modmail, reply, svars>>

\* process_refund_command up to the end of its SELECT
TxRefundSelect(p, author, parent) ==
  LET borrower == Lower(parent.borrower)
      amount == parent.amount
      currency == parent.currency
      lender == Lower(UpToDot(parent.lender))
      l == ViewLoans(conns[p])
      matches == RefundMatches(l, lender, borrower, amount, currency)
  IN  /\ Free(p)
      /\ UNCHANGED <<loans, users, nextId, botComments, svars>>
      /\ IF AuthorIsNotLender(author, lender)
         THEN reply' = "err_notlender" /\ modmail' = NoModMessage /\ UNCHANGED conns
         ELSE IF matches = {}
         THEN reply' = "err_nomatch" /\ modmail' = NoModMessage /\ UNCHANGED conns
         ELSE /\ conns' = [conns EXCEPT ![p] =
                   [Idle EXCEPT !.pc = "r_loan", !.kind = "refund",
                                !.lender = lender, !.borrower = borrower,
                                !.id = MostRecent(l, matches),
                                !.amount = amount, !.currency = currency]]
              /\ UNCHANGED <<reply, modmail>>

\* UPDATE loans SET status = 'refunded'
TxRefundLoan(p) ==
  LET c == conns[p]
  IN  /\ c.pc = "r_loan"
      /\ ~LoanLocked(p, c.id)
      /\ conns' = [conns EXCEPT ![p].pc = "r_lender",
                                ![p].wl = Written(c.wl,
                                   UpdateLoanRefunded(ViewLoans(c), c.id),
                                   c.id)]
      /\ UNCHANGED <<loans, users, nextId, botComments, modmail, reply, svars>>

\* the lender UPDATE of process_refund_command
TxRefundLender(p) ==
  LET c == conns[p]
  IN  /\ c.pc = "r_lender"
      /\ ~UserLocked(p, c.lender)
      /\ conns' = [conns EXCEPT ![p].pc = "r_borrower",
                                ![p].wu = Written(c.wu,
                                   DecLender(ViewUsers(c), c.lender, c.amount),
                                   c.lender)]
      /\ UNCHANGED <<loans, users, nextId, botComments, modmail, reply, svars>>

\* the borrower UPDATE of process_refund_command
TxRefundBorrower(p) ==
  LET c == conns[p]
  IN  /\ c.pc = "r_borrower"
      /\ ~UserLocked(p, c.borrower)
      /\ conns' = [conns EXCEPT ![p].pc = "commit",
                                ![p].wu = Written(c.wu,
                                   DecBorrower(ViewUsers(c), c.borrower,
                                               c.amount),
                                   c.borrower)]
      /\ UNCHANGED <<loans, users, nextId, botComments, modmail, reply, svars>>

\* conn.commit(): the writes of the command reach the tables together.  Of
\* the handler's locals only those the reply is built from are kept.
TxCommit(p) ==
  LET c == conns[p]
  IN  /\ c.pc = "commit"
      /\ loans' = CommitLoans(loans, c)
      /\ users' = CommitUsers(users, c)
      /\ conns' = [conns EXCEPT ![p] =
                   IF c.kind = "confirm"
                   THEN [Idle EXCEPT !.pc = "reply", !.kind = c.kind,
                                     !.id = c.id, !.lender = c.lender,
                                     !.borrower = c.borrower,
                                     !.amount = c.amount,
                                     !.currency = c.currency]
                   ELSE [Idle EXCEPT !.pc = "reply", !.kind = c.kind,
                                     !.id = c.id]]
      /\ UNCHANGED <<nextId, botComments, modmail, reply, svars>>

\* faulty variant: the rollback after a failed reply takes the command's
\* loans row out of the table
RollbackAfterCommitUndoes(l, c) == [id \in DOMAIN l \ {c.id} |-> l[id]]

\* conn.rollback() in the except clause when the transaction has been
\* committed: there is nothing left to roll back
RollbackAfterCommit(l, c) == l

\* comment.reply(..) after the commit, and for a Refund the message to the
\* moderators after it.  A reply that raises goes to the except clause:
\* conn.rollback(), a log line, and the handler returns.
TxReply(p, delivered) ==
  LET c == conns[p]
  IN  /\ c.pc = "reply"
      /\ reply' = CASE c.kind = "confirm" -> "confirmed"
                    [] c.kind = "paid" -> "paid"
                    [] OTHER -> "refunded"
      /\ botComments' =
           IF c.kind = "confirm" /\ delivered
           THEN botComments \cup
                  {ConfirmReply(c.borrower, c.amount, c.currency, c.lender)}
           ELSE botComments
      /\ modmail' = IF c.kind = "refund"
                    THEN ModMessage(c.id, delivered)
                    ELSE NoModMessage
      /\ loans' = IF delivered THEN loans ELSE RollbackAfterCommit(loans, c)
      /\ conns' = [conns EXCEPT ![p] = Idle]
      /\ UNCHANGED <<users, nextId, svars>>

\* a statement or the commit raises: except Exception: conn.rollback()
TxFail(p) ==
  LET c == conns[p]
  IN  /\ c.pc \notin {"idle", "reply"}
      /\ loans' = RollbackLoans(loans, c)
      /\ users' = RollbackUsers(users, c)
      /\ conns' = [conns EXCEPT ![p] = Idle]
      /\ reply' = NoReply
      /\ modmail' = NoModMessage
      /\ UNCHANGED <<nextId, botComments, svars>>

\* The commands the connections run: loans of one cent in one currency from
\* one lender, and payments of nothing or of the whole, are enough for
\* every statement of every command to meet every statement of another.
TxnTokens == {"Bob"}
TxnPrincipals == {2}
TxnAmounts == {0, 2}
TxnCurrencies == {"USD"}

TxnNext ==
  \/ \E p \in Conns, author \in Authors, token \in TxnTokens,
        amt \in TxnPrincipals, cur \in TxnCurrencies :
       TxConfirmInsert(p, author, token, amt, cur)
  \/ \E p \in Conns : TxConfirmLender(p)
  \/ \E p \in Conns : TxConfirmBorrower(p)
  \/ \E p \in Conns, author \in Authors, idtok \in IdTokens,
        amt \in TxnAmounts, cur \in TxnCurrencies :
       TxPaidSelect(p, author, idtok, amt, cur)
  \/ \E p \in Conns : TxPaidLoan(p)
  \/ \E p \in Conns : TxPaidUser(p)
  \/ \E p \in Conns : TxPaidUnpaid(p)
  \/ \E p \in Conns, author \in Authors, parent \in botComments :
       TxRefundSelect(p, author, parent)
  \/ \E p \in Conns : TxRefundLoan(p)
  \/ \E p \in Conns : TxRefundLender(p)
  \/ \E p \in Conns : TxRefundBorrower(p)
  \/ \E p \in Conns : TxCommit(p)
  \/ \E p \in Conns, delivered \in BOOLEAN : TxReply(p, delivered)
  \/ \E p \in Conns : TxFail(p)

SpecTxn == Init /\ [][TxnNext]_vars

\* ------------------------------------------------------ monitor loops
\* comment.author / post.author is None: the account was deleted
NoAuthor == "[deleted]"

\* os.getenv("REDDIT_USERNAME"): the bot's own account
Bot == "loancentralbot"

\* the commands in the bodies: $loan 0.01 USD, $confirm /u/Bob 0.01 USD,
\* $paid_with_id 1 0 USD
WorkerToken == "Bob"
WorkerPrincipal == 2
WorkerPayment == 0
WorkerCurrency == "USD"
WorkerIdToken == 1

\* faulty variant: the offer is stored as a loan at once
process_loan_command_stores(author, post_author) ==
  LET lender == Lower(author)
      borrower == Lower(post_author)
  IN  /\ modmail' = NoModMessage
      /\ UNCHANGED <<users, nextId, botComments>>
      /\ loans' = IF post_author = NoAuthor \/ borrower = lender
                  THEN loans
                  ELSE InsertLoan(loans, nextId, lender, borrower,
                                  WorkerPrincipal, WorkerCurrency)
      /\ reply' = IF post_author = NoAuthor \/ borrower = lender
                  THEN NoReply
                  ELSE "offer"

\* $loan <amount> <currency> by author under a post of post_author.
\* Nothing is stored; a reply that fails is caught and logged.
process_loan_command(author, post_author) ==
  LET lender == Lower(author)
      borrower == Lower(post_author)
  IN  /\ modmail' = NoModMessage
      /\ UNCHANGED <<loans, users, nextId, botComments>>
      /\ reply' = IF post_author = NoAuthor \/ borrower = lender
                  THEN NoReply
                  ELSE "offer"

\* post.author.name of a post without author raises AttributeError, and
\* nothing in process_loan_command catches it
LoanRaises(author, post_author) == post_author = NoAuthor

\* the "Only the lender ..." reply is sent outside any try: when Reddit
\* refuses it, the exception leaves process_refund_command
RefundRaises(author, parent, delivered) ==
  /\ parent # NoParent
  /\ AuthorIsNotLender(author, Lower(UpToDot(parent.lender)))
  /\ ~delivered

\* $stats: reads Reddit only, answers with the account's figures
process_stats_command ==
  /\ UNCHANGED <<loans, users, nextId, botComments>>
  /\ reply' = "stats"
  /\ modmail' = NoModMessage

\* a comment of the stream: who wrote it, which keyword markers its body
\* holds, who wrote the post it is under, and the confirm reply of the bot
\* it answers, if any
Comment(a, m, pa, par) ==
  [author |-> a, markers |-> m, post_author |-> pa, parent |-> par]

\* the comments that may be published, given the bot's confirm replies bc
StreamComments(bc) ==
  { Comment("Bob", {"$loan"}, "alice", NoParent),
    Comment("alice", {"$loan"}, "alice", NoParent),
    Comment("Bob", {"$loan"}, NoAuthor, NoParent),
    Comment("alice", {"$loan", "$confirm"}, "Bob", NoParent),
    Comment("alice", {"$confirm"}, "alice", NoParent),
    Comment(Bot, {"$confirm"}, "alice", NoParent),
    Comment("Bob", {"$paid_with_id"}, "alice", NoParent),
    Comment("alice", {"$stats"}, "alice", NoParent) }
  \cup { Comment("alice", {"refunded"}, "alice", par) : par \in bc }

\* a post of the stream: whether its title holds "[req]"
StreamPosts == { [req |-> TRUE] }

\* faulty variant: $confirm is looked for before $loan
DispatchConfirmFirst(c) ==
  IF c.author \in {NoAuthor, Bot} THEN "skip"
  ELSE IF "$confirm" \in c.markers THEN "confirm"
  ELSE IF "$loan" \in c.markers THEN "loan"
  ELSE IF "$paid_with_id" \in c.markers THEN "paid"
  ELSE IF "refunded" \in c.markers THEN "refund"
  ELSE IF "$stats" \in c.markers THEN "stats"
  ELSE "none"

\* the if / elif chain of comment_monitor: which handler gets the comment
Dispatch(c) ==
  IF c.author \in {NoAuthor, Bot} THEN "skip"
  ELSE IF "$loan" \in c.markers THEN "loan"
  ELSE IF "$confirm" \in c.markers THEN "confirm"
  ELSE IF "$paid_with_id" \in c.markers THEN "paid"
  ELSE IF "refunded" \in c.markers THEN "refund"
  ELSE IF "$stats" \in c.markers THEN "stats"
  ELSE "none"

\* the handler h runs on comment c
Handle(h, c, fault, delivered) ==
  CASE h = "loan" -> process_loan_command(c.author, c.post_author)
    [] h = "confirm" ->
         process_confirm_command(c.author, WorkerToken, WorkerPrincipal,
                                 WorkerCurrency, fault, delivered)
    [] h = "paid" ->
         process_paid_command(c.author, WorkerIdToken, WorkerPayment,
                              WorkerCurrency, fault)
    [] h = "refund" -> process_refund_command(c.author, c.parent, fault)
    [] h = "stats" -> process_stats_command
    [] OTHER -> UNCHANGED <<loans, users, nextId, botComments, modmail, reply>>

\* the exception of handler h on comment c leaves the handler
Raises(h, c, delivered) ==
  \/ h = "loan" /\ LoanRaises(c.author, c.post_author)
  \/ h = "refund" /\ RefundRaises(c.author, c.parent, delivered)

\* how many comments of l go to process_confirm_command
Confirms(l) == Cardinality({i \in 1..Len(l) : Dispatch(l[i]) = "confirm"})

\* somebody publishes a comment in the subreddit
PublishComment(c) ==
  /\ Len(listing.comments) < MaxListing
  /\ Dispatch(c) = "confirm" => Confirms(listing.comments) < MaxId
  /\ listing' = [listing EXCEPT !.comments = Append(@, c)]
  /\ handled' = [handled EXCEPT !.comments = Append(@, 0)]
  /\ UNCHANGED <<loans, users, nextId, botComments, modmail, reply, conns,
                 cursor, worker>>

\* somebody publishes a post in the subreddit
PublishPost(post) ==
  /\ Len(listing.submissions) < MaxPosts
  /\ listing' = [listing EXCEPT !.submissions = Append(@, post)]
  /\ handled' = [handled EXCEPT !.submissions = Append(@, 0)]
  /\ UNCHANGED <<loans, users, nextId, botComments, modmail, reply, conns,
                 cursor, worker>>

\* one turn of the for loop of comment_monitor: the stream yields the next
\* comment and the body runs on it; an exception that leaves the handler
\* ends the for loop in the except clause
ConsumeComment(fault, delivered) ==
  LET i == cursor.comments + 1
      c == listing.comments[i]
      h == Dispatch(c)
  IN  /\ worker.comments = "streaming"
      /\ i <= Len(listing.comments)
      /\ cursor' = [cursor EXCEPT !.comments = i]
      /\ handled' = [handled EXCEPT !.comments[i] = @ + 1]
      /\ Handle(h, c, fault, delivered)
      /\ worker' = [worker EXCEPT !.comments =
                      IF Raises(h, c, delivered) THEN "backoff_command"
                      ELSE "streaming"]
      /\ UNCHANGED <<conns, listing>>

\* post.author.name of the posts that arrive: an account with loans, an
\* account the store has never seen, and a post whose author is None
PostAuthors == {"alice", "Carol", NoAuthor}

\* the statuses generate_user_info counts as unpaid
UnpaidStatuses == {"active", "confirmed", "partially_repaid"}

\* the report of generate_user_info on username, read from loans l and
\* users u: SELECTs only, and an error text when the store fails
generate_user_info(l, u, username, fault) ==
  LET name == Lower(username)
  IN  IF fault = "noconn" THEN "error_database"
      ELSE IF fault = "dberror" THEN "error"
      ELSE IF name \notin DOMAIN u THEN "no_history"
      ELSE [loans_as_borrower |-> u[name].loans_as_borrower,
            amount_borrowed |-> Fmt2f(u[name].amount_borrowed),
            loans_as_lender |-> u[name].loans_as_lender,
            amount_lent |-> Fmt2f(u[name].amount_lent),
            current_unpaid_as_borrower |->
              Cardinality({id \in DOMAIN l :
                             /\ l[id].borrower = name
                             /\ l[id].status \in UnpaidStatuses}),
            in_progress_count |->
              Cardinality({id \in DOMAIN l :
                             /\ l[id].lender = name
                             /\ l[id].status \in UnpaidStatuses})]

\* faulty variant: the lookup creates the users row it does not find
handle_new_post_creates_row(username, fault) ==
  /\ UNCHANGED <<loans, nextId, botComments, modmail, reply>>
  /\ users' = IF username = NoAuthor \/ fault # "none"
              THEN users
              ELSE (Lower(username) :> Row(users, Lower(username))) @@ users

\* handle_new_post: nothing for a post without author; else the report of
\* generate_user_info is posted under the post, and a reply that fails
\* is caught and logged
handle_new_post(username, fault) ==
  LET user_info == IF username = NoAuthor THEN NoReply
                   ELSE generate_user_info(loans, users, username, fault)
  IN  UNCHANGED <<loans, users, nextId, botComments, modmail, reply>>

\* one turn of the for loop of post_monitor: handle_new_post runs on a
\* post whose title holds "[req]"
ConsumePost(username, fault) ==
  LET i == cursor.submissions + 1
  IN  /\ worker.submissions = "streaming"
      /\ i <= Len(listing.submissions)
      /\ cursor' = [cursor EXCEPT !.submissions = i]
      /\ handled' = [handled EXCEPT !.submissions[i] =
                       IF listing.submissions[i].req THEN @ + 1 ELSE @]
      /\ IF listing.submissions[i].req
         THEN handle_new_post(username, fault)
         ELSE UNCHANGED <<loans, users, nextId, botComments, modmail, reply>>
      /\ UNCHANGED <<conns, listing, worker>>

\* the stream of k raises: the connection to Reddit failed
StreamError(k) ==
  /\ worker[k] = "streaming"
  /\ worker' = [worker EXCEPT ![k] = "backoff_stream"]
  /\ UNCHANGED <<loans, users, nextId, botComments, modmail, reply, conns,
                 listing, cursor, handled>>

\* faulty variant: a new stream that starts with the oldest item
NewStreamStartOldest(l) == 0

\* stream.comments(skip_existing=True): a new stream passes over all that
\* is in the listing when it is opened
NewStreamStart(l) == Len(l)

\* time.sleep(60) is over; while True opens a new stream
Reconnect(k) ==
  /\ worker[k] \in {"backoff_command", "backoff_stream"}
  /\ worker' = [worker EXCEPT ![k] = "streaming"]
  /\ cursor' = [cursor EXCEPT ![k] = NewStreamStart(listing[k])]
  /\ UNCHANGED <<loans, users, nextId, botComments, modmail, reply, conns,
                 listing, handled>>

WorkerNext ==
  \/ \E c \in StreamComments(botComments) : PublishComment(c)
  \/ \E post \in StreamPosts : PublishPost(post)
  \/ \E fault \in Faults, delivered \in BOOLEAN :
       ConsumeComment(fault, delivered)
  \/ \E username \in PostAuthors, fault \in Faults :
       ConsumePost(username, fault)
  \/ \E k \in Streams : StreamError(k)
  \/ \E k \in Streams : Reconnect(k)

SpecWorker == Init /\ [][WorkerNext]_vars

\* the sleep of the except clause ends and the while loop goes on
FairSpecWorker == SpecWorker /\ \A k \in Streams : WF_vars(Reconnect(k))

\* ================================================================ claims
\* replies that tell the author the command was refused
ErrorReplies == {"err_notfound", "err_currency", "err_notlender", "err_nomatch"}

\* the loans other than id are the same before and after the step
OthersUnchanged(id) ==
  \A other \in DOMAIN loans : other # id => loans'[other] = loans[other]

\* ---- C1
ConfirmPost(author, token, amt, cur) ==
  LET lender == Lower(token)
      borrower == Lower(author)
      id == nextId
  IN  /\ id \notin DOMAIN loans
      /\ DOMAIN loans' = DOMAIN loans \cup {id}
      /\ OthersUnchanged(id)
      /\ loans'[id].lender = lender
      /\ loans'[id].borrower = borrower
      /\ loans'[id].amount = amt
      /\ loans'[id].status = "confirmed"
      /\ loans'[id].amount_repaid = 0
      /\ Row(users', lender).loans_as_lender = Row(users, lender).loans_as_lender + 1
      /\ Row(users', lender).amount_lent = Row(users, lender).amount_lent + amt
      /\ Row(users', borrower).loans_as_borrower
           = Row(users, borrower).loans_as_borrower + 1
      /\ Row(users', borrower).amount_borrowed
           = Row(users, borrower).amount_borrowed + amt

PaidPost(idtok, amt) ==
  LET borrower == loans[idtok].borrower
  IN  /\ loans'[idtok].amount_repaid = loans[idtok].amount_repaid + amt
      /\ loans'[idtok].status =
           IF loans'[idtok].amount_repaid >= loans[idtok].amount
           THEN "repaid" ELSE "partially_repaid"
      /\ Row(users', borrower).amount_repaid
           = Row(users, borrower).amount_repaid + amt

\* C2: every successful Paid adds the paid amount to the loan's
\* amount_repaid, sets the status to repaid when the new amount_repaid
\* reaches the principal and to partially_repaid otherwise, and adds the
\* paid amount to the borrower's amount_repaid aggregate.
C2_PaidEffect ==
  [][reply' = "paid" =>
       \A author \in Authors, idtok \in IdTokens, amt \in Amounts,
          cur \in CurrencyTokens :
         process_paid_command(author, idtok, amt, cur, "none")
           => PaidPost(idtok, amt)]_vars

\* a partial payment has been recorded on a loan and on its borrower
C2_Witness ==
  /\ reply = "paid"
  /\ \E id \in DOMAIN loans :
       /\ loans[id].status = "partially_repaid"
       /\ loans[id].amount_repaid = 1
       /\ users[loans[id].borrower].amount_repaid >= 1

\* ---- C3
\* C3: a Paid by the lender against a loan that is already repaid is
\* rejected with an error reply and changes neither the loan's
\* amount_repaid nor the borrower's amount_repaid, unpaid_loans and
\* unpaid_amount.
C3_PaidOnRepaidRejected ==
  [][\A author \in Authors, idtok \in IdTokens, amt \in Amounts,
        cur \in CurrencyTokens :
       ( /\ process_paid_command(author, idtok, amt, cur, "none")
         /\ idtok \in DOMAIN loans
         /\ loans[idtok].lender = Lower(author)
         /\ loans[idtok].status = "repaid" )
       => LET borrower == loans[idtok].borrower
          IN  /\ reply' \in ErrorReplies
              /\ loans'[idtok].amount_repaid = loans[idtok].amount_repaid
              /\ Row(users', borrower).amount_repaid
                   = Row(users, borrower).amount_repaid
              /\ Row(users', borrower).unpaid_loans
                   = Row(users, borrower).unpaid_loans
              /\ Row(users', borrower).unpaid_amount
                   = Row(users, borrower).unpaid_amount]_vars

\* ---- C4
\* C4: once a loan is repaid or refunded, no later command changes its status.
C4_TerminalAbsorbing ==
  [][\A id \in DOMAIN loans :
       loans[id].status \in {"repaid", "refunded"}
         => loans'[id].status = loans[id].status]_vars

\* ---- C5
\* C5: a Refund on a confirmed or partially_repaid loan sets it to refunded,
\* and a second Refund, when the refunded loan is the only one matching
\* (lender, borrower, amount, currency), finds no loan, answers loan not
\* found and changes no loans or users row.
C5_NoSecondRefund ==
  [][\A author \in Authors, parent \in botComments :
       LET lender == Lower(UpToDot(parent.lender))
           matches == RefundMatches(loans, lender, Lower(parent.borrower),
                                    parent.amount, parent.currency)
       IN  ( /\ process_refund_command(author, parent, "none")
             /\ Lower(author) = lender
             /\ matches # {} )
           => LET id == MostRecent(loans, matches)
              IN  /\ loans[id].status \in {"confirmed", "partially_repaid"}
                       => loans'[id].status = "refunded"
                  /\ (matches = {id} /\ loans[id].status = "refunded")
                       => /\ reply' = "err_nomatch"
                          /\ loans' = loans
                          /\ users' = users]_vars

\* ---- C6
\* C6: every loan that is not refunded is repaid exactly when its
\* amount_repaid has reached its principal, for every principal including 0.
C6_RepaidIffCovered ==
  \A id \in DOMAIN loans :
    loans[id].status # "refunded"
      => (loans[id].status = "repaid"
            <=> loans[id].amount_repaid >= loans[id].amount)

\* C6 (amended): every loan that is not refunded and whose principal is
\* greater than 0 is repaid exactly when its amount_repaid has reached its
\* principal.
C6_RepaidIffCoveredPositive ==
  \A id \in DOMAIN loans :
    (loans[id].status # "refunded" /\ loans[id].amount > 0)
      => (loans[id].status = "repaid"
            <=> loans[id].amount_repaid >= loans[id].amount)

\* a loan of positive principal has been paid up to exactly its principal
C6_Witness ==
  \E id \in DOMAIN loans :
    /\ loans[id].amount > 0
    /\ loans[id].status = "repaid"
    /\ loans[id].amount_repaid = loans[id].amount

\* ---- C7
C7_NonNegative ==
  \A name \in DOMAIN users :
    /\ users[name].loans_as_borrower >= 0
    /\ users[name].loans_as_lender >= 0
    /\ users[name].amount_borrowed >= 0
    /\ users[name].amount_lent >= 0
    /\ users[name].amount_repaid >= 0
    /\ users[name].unpaid_loans >= 0
    /\ users[name].unpaid_amount >= 0

\* the value a decrement by d leaves in an aggregate that held v
Floored(v, d) == IF v >= d THEN v - d ELSE 0

C7_PaidDecrement ==
  reply' = "paid" =>
    \A author \in Authors, idtok \in IdTokens, amt \in Amounts,
       cur \in CurrencyTokens :
      ( /\ process_paid_command(author, idtok, amt, cur, "none")
        /\ loans'[idtok].status = "repaid" )
      => LET borrower == loans[idtok].borrower
         IN  /\ Row(users', borrower).unpaid_loans
                  = Floored(Row(users, borrower).unpaid_loans, 1)
             /\ Row(users', borrower).unpaid_amount
                  = Floored(Row(users, borrower).unpaid_amount,
                            loans[idtok].amount)

C7_RefundDecrement ==
  reply' = "refunded" =>
    \A author \in Authors, parent \in botComments :
      process_refund_command(author, parent, "none")
      => LET lender == Lower(UpToDot(parent.lender))
             borrower == Lower(parent.borrower)
         IN  /\ Row(users', lender).loans_as_lender
                  = Floored(Row(users, lender).loans_as_lender, 1)
             /\ Row(users', lender).amount_lent
                  = Floored(Row(users, lender).amount_lent, parent.amount)
             /\ Row(users', borrower).loans_as_borrower
                  = Floored(Row(users, borrower).loans_as_borrower, 1)
             /\ Row(users', borrower).amount_borrowed
                  = Floored(Row(users, borrower).amount_borrowed, parent.amount)

\* C7: every field of every users row is >= 0 in every reachable state, and
\* a decrement by Paid or Refund of an aggregate that is 0, or smaller than
\* the decrement, leaves it at 0.
C7_StatsNonNegative ==
  /\ []C7_NonNegative
  /\ [][C7_PaidDecrement /\ C7_RefundDecrement]_vars

\* a Paid has decremented the unpaid aggregates of a borrower that stood at 0
C7_Witness ==
  /\ reply = "paid"
  /\ \E id \in DOMAIN loans :
       /\ loans[id].status = "repaid"
       /\ loans[id].amount > 0
       /\ users[loans[id].borrower].unpaid_loans = 0
       /\ users[loans[id].borrower].unpaid_amount = 0

\* ---- C8
\* C8: the Paid that makes a loan repaid lowers the borrower's unpaid_loans
\* by exactly 1 and unpaid_amount by exactly the principal, and no later
\* Paid on that loan lowers them again.
C8_RepaidLowersUnpaid ==
  [][reply' = "paid" =>
       \A author \in Authors, idtok \in IdTokens, amt \in Amounts,
          cur \in CurrencyTokens :
         process_paid_command(author, idtok, amt, cur, "none")
         => LET borrower == loans[idtok].borrower
                before == Row(users, borrower)
                after == Row(users', borrower)
            IN  /\ ( /\ loans[idtok].status \in {"confirmed", "partially_repaid"}
                     /\ loans'[idtok].status = "repaid" )
                     => /\ after.unpaid_loans = before.unpaid_loans - 1
                        /\ after.unpaid_amount
                             = before.unpaid_amount - loans[idtok].amount
                /\ loans[idtok].status = "repaid"
                     => /\ after.unpaid_loans = before.unpaid_loans
                        /\ after.unpaid_amount = before.unpaid_amount]_vars

\* ---- C9
RefundPost(lender, borrower, amount, currency) ==
  /\ \E id \in RefundMatches(loans, lender, borrower, amount, currency) :
       /\ loans' = [loans EXCEPT ![id].status = "refunded"]
  /\ Row(users', lender).loans_as_lender
       = GREATEST(Row(users, lender).loans_as_lender - 1, 0)
  /\ Row(users', lender).amount_lent
       = GREATEST(Row(users, lender).amount_lent - amount, 0)
  /\ Row(users', borrower).loans_as_borrower
       = GREATEST(Row(users, borrower).loans_as_borrower - 1, 0)
  /\ Row(users', borrower).amount_borrowed
       = GREATEST(Row(users, borrower).amount_borrowed - amount, 0)
  /\ \A name \in {lender, borrower} :
       /\ Row(users', name).amount_repaid = Row(users, name).amount_repaid
       /\ Row(users', name).unpaid_loans = Row(users, name).unpaid_loans
       /\ Row(users', name).unpaid_amount = Row(users, name).unpaid_amount

\* C9: every successful Refund sets the located loan to refunded, lowers the
\* lender's loans_as_lender by 1 and amount_lent by the amount and the
\* borrower's loans_as_borrower by 1 and amount_borrowed by the amount, each
\* floored at 0, and leaves amount_repaid, unpaid_loans and unpaid_amount of
\* both users as they were.
C9_RefundEffect ==
  [][reply' = "refunded" =>
       \A author \in Authors, parent \in botComments :
         process_refund_command(author, parent, "none")
           => RefundPost(Lower(UpToDot(parent.lender)), Lower(parent.borrower),
                         parent.amount, parent.currency)]_vars

\* a loan of positive principal between two users has just been refunded
C9_Witness ==
  /\ reply = "refunded"
  /\ \E id \in DOMAIN loans :
       /\ loans[id].status = "refunded"
       /\ loans[id].lender # loans[id].borrower
       /\ loans[id].amount > 0
       /\ users[loans[id].lender].loans_as_lender = 0
       /\ users[loans[id].lender].amount_lent = 0
       /\ users[loans[id].borrower].loans_as_borrower = 0
       /\ users[loans[id].borrower].amount_borrowed = 0

\* ---- C10
\* C10: every loan row has lender # borrower.
C10_LenderIsNotBorrower ==
  \A id \in DOMAIN loans : loans[id].lender # loans[id].borrower

\* ---- C11
\* what a Paid whose store works may answer
PaidReplies == {"paid", "err_notfound", "err_currency"}

\* the step answers loan-not-found and changes no row
NotFoundStep ==
  /\ reply' = "err_notfound"
  /\ loans' = loans
  /\ users' = users

\* C11: a Paid whose author is not the lender of the addressed loan id, or
\* whose loan id does not exist, is answered with the loan-not-found error
\* and leaves every loans row and every users row unchanged.  (A step that
\* is not such an answer is the step of no such Paid.)
C11_PaidNotLenderRejected ==
  [][(reply' \in PaidReplies /\ ~NotFoundStep)
       => \A author \in Authors, idtok \in IdTokens :
            (idtok \notin DOMAIN loans \/ loans[idtok].lender # Lower(author))
            => \A amt \in Amounts, cur \in CurrencyTokens :
                 ~process_paid_command(author, idtok, amt, cur, "none")]_vars

\* somebody who is not the lender of an existing loan has been refused
C11_Witness ==
  /\ reply = "err_notfound"
  /\ \E id \in DOMAIN loans : loans[id].lender # loans[id].borrower

\* ---- C12
\* the step answers currency-mismatch and changes no row
MismatchStep ==
  /\ reply' = "err_currency"
  /\ loans' = loans
  /\ users' = users

\* C12: a Paid by the loan's lender in a currency other than the loan's is
\* answered with the currency-mismatch error and changes no loans row and
\* no users row.  (A step that is not such an answer is the step of no such
\* Paid.)
C12_PaidCurrencyMismatchRejected ==
  [][(reply' \in PaidReplies /\ ~MismatchStep)
       => \A author \in Authors, idtok \in IdTokens, cur \in CurrencyTokens :
            ( /\ idtok \in DOMAIN loans
              /\ loans[idtok].lender = Lower(author)
              /\ loans[idtok].currency # Upper(cur) )
            => \A amt \in Amounts :
                 ~process_paid_command(author, idtok, amt, cur, "none")]_vars

\* a payment in the wrong currency has been refused on an existing loan
C12_Witness ==
  /\ reply = "err_currency"
  /\ loans # << >>

\* ---- C13
\* what a comment with "refunded" in it may be answered
RefundReplies == {NoReply, "err_notlender", "err_nomatch", "refunded"}

\* C13: a "refunded" reply changes loans and users only if its parent is a
\* confirm reply of the bot and its author is the lender named there; from
\* anybody else it is answered with an error and changes no row; under a
\* parent that is not such a reply it changes nothing and gets no answer.
C13_RefundOnlyByNamedLender ==
  [][reply' \in RefundReplies
       => \A author \in Authors, parent \in botComments \cup {NoParent} :
            LET named == Lower(UpToDot(parent.lender))
                unchanged == loans' = loans /\ users' = users
                good ==
                  /\ parent = NoParent => reply' = NoReply /\ unchanged
                  /\ (parent # NoParent /\ Lower(author) # named)
                       => reply' = "err_notlender" /\ unchanged
                  /\ ~unchanged
                       => parent \in botComments /\ Lower(author) = named
            IN  good \/ \A fault \in Faults :
                          ~process_refund_command(author, parent, fault)]_vars

\* the borrower of an existing loan has tried to refund it and was refused
C13_Witness ==
  /\ reply = "err_notlender"
  /\ botComments # {}
  /\ \E id \in DOMAIN loans : loans[id].status = "confirmed"

\* ---- C14
\* what the commit of connection c's command does to the committed tables:
\* the loans row and the users rows of that command together, and no other
CommitEffect(c) ==
  /\ \A id \in DOMAIN loans' : id # c.id => /\ id \in DOMAIN loans
                                            /\ loans'[id] = loans[id]
  /\ \A n \in DOMAIN users' :
       n \notin {c.lender, c.borrower} => /\ n \in DOMAIN users
                                          /\ users'[n] = users[n]
  /\ c.kind = "confirm" =>
       /\ c.id \notin DOMAIN loans
       /\ c.id \in DOMAIN loans'
       /\ loans'[c.id].lender = c.lender
       /\ loans'[c.id].borrower = c.borrower
       /\ Row(users', c.lender).loans_as_lender
            = Row(users, c.lender).loans_as_lender + 1
       /\ Row(users', c.lender).amount_lent
            = Row(users, c.lender).amount_lent + c.amount
       /\ Row(users', c.borrower).loans_as_borrower
            = Row(users, c.borrower).loans_as_borrower + 1
       /\ Row(users', c.borrower).amount_borrowed
            = Row(users, c.borrower).amount_borrowed + c.amount
  /\ c.kind = "paid" =>
       /\ loans'[c.id].amount_repaid = c.new_repaid
       /\ loans'[c.id].status = c.new_status
       /\ users'[c.borrower].amount_repaid
            = users[c.borrower].amount_repaid + c.amount
       /\ users'[c.borrower].unpaid_loans
            = IF c.new_status = "repaid"
              THEN Floored(users[c.borrower].unpaid_loans, 1)
              ELSE users[c.borrower].unpaid_loans
  /\ c.kind = "refund" =>
       /\ loans'[c.id].status = "refunded"
       /\ users'[c.lender].loans_as_lender
            = Floored(users[c.lender].loans_as_lender, 1)
       /\ users'[c.lender].amount_lent
            = Floored(users[c.lender].amount_lent, c.amount)
       /\ users'[c.borrower].loans_as_borrower
            = Floored(users[c.borrower].loans_as_borrower, 1)
       /\ users'[c.borrower].amount_borrowed
            = Floored(users[c.borrower].amount_borrowed, c.amount)

\* C14: Confirm, Paid and Refund are atomic.  A command that fails after
\* its first write leaves the committed loans and users as they were and
\* keeps none of its writes; the committed tables change only in the commit
\* of one command, which brings its loans write and its users writes
\* together.
C14_CommandsAtomic ==
  [][/\ \A p \in Conns :
          TxFail(p) => /\ loans' = loans
                       /\ users' = users
                       /\ conns'[p].wl = << >>
                       /\ conns'[p].wu = << >>
     /\ (loans' # loans \/ users' # users)
          => \E p \in Conns : /\ conns[p].pc = "commit"
                              /\ conns'[p].pc = "reply"
                              /\ CommitEffect(conns[p])]_vars

\* a command failed after writing its loans row and a users row, and the
\* committed tables hold nothing of it
C14_Witness ==
  /\ reply = NoReply
  /\ nextId > 1
  /\ loans = << >>
  /\ users = << >>
  /\ \A p \in Conns : conns[p] = Idle

\* ---- C15
\* C15: two Paid on one loan whose transactions overlap serialize: each
\* commit adds its amount to the amount_repaid committed just before it,
\* and adds the same to the borrower's amount_repaid.
C15_PaidSerialize ==
  [][\A p \in Conns :
       (TxCommit(p) /\ conns[p].kind = "paid")
       => LET c == conns[p]
          IN  /\ loans'[c.id].amount_repaid
                   = loans[c.id].amount_repaid + c.amount
              /\ loans'[c.id].amount_repaid - loans[c.id].amount_repaid
                   = users'[c.borrower].amount_repaid
                       - users[c.borrower].amount_repaid]_vars

\* the comment the comment stream yields next
NextComment == listing.comments[cursor.comments + 1]

\* the comment was written by somebody other than the bot
ByUser(c) == c.author \notin {NoAuthor, Bot}

\* ---- C16
\* C16: a command that fails never stops the consumption of the comment
\* stream: after the loop body has run on a comment the worker is still on
\* its stream, whatever the handler met, and no comment is passed over
\* because a command failed.
C16_CommandFailureKeepsConsuming ==
  [][/\ (\E fault \in Faults, delivered \in BOOLEAN :
           ConsumeComment(fault, delivered))
          => worker'.comments = "streaming"
     /\ (worker.comments = "backoff_command"
           /\ worker'.comments = "streaming")
          => cursor'.comments = cursor.comments]_vars

\* ---- C17
\* no item of a stream has been handled twice
HandledOnce ==
  \A k \in Streams : \A i \in 1..Len(handled[k]) : handled[k][i] <= 1

\* a reconnect moves the cursor forward only, to the end of the listing,
\* and touches neither table
ReconnectForward ==
  \A k \in Streams :
    Reconnect(k) => /\ cursor'[k] >= cursor[k]
                    /\ cursor'[k] = Len(listing[k])
                    /\ loans' = loans
                    /\ users' = users

\* C17: a worker whose stream failed is back on a stream after its pause,
\* and it resumes forward: no comment and no post is handled a second time,
\* and a reconnect by itself changes no row.
C17_ReconnectResumesForward ==
  /\ []HandledOnce
  /\ [][ReconnectForward]_vars
  /\ \A k \in Streams :
       (worker[k] = "backoff_stream") ~> (worker[k] = "streaming")

\* the comment worker created a loan, reconnected past a comment it never
\* handled, and is on a stream again; the post worker handled a post
C17_Witness ==
  /\ worker.comments = "streaming"
  /\ loans # << >>
  /\ \E i, j \in 1..cursor.comments :
       /\ i < j
       /\ Dispatch(listing.comments[i]) = "confirm"
       /\ handled.comments[i] = 1
       /\ handled.comments[j] = 0
  /\ \E i \in 1..cursor.submissions : handled.submissions[i] = 1

\* ---- C18
\* the keyword markers in the order comment_monitor looks for them
Precedence == <<"$loan", "$confirm", "$paid_with_id", "refunded", "$stats">>

\* the handler each marker stands for
HandlerOf(marker) ==
  CASE marker = "$loan" -> "loan"
    [] marker = "$confirm" -> "confirm"
    [] marker = "$paid_with_id" -> "paid"
    [] marker = "refunded" -> "refund"
    [] marker = "$stats" -> "stats"

\* the handler of the first marker, in that order, that is among m
FirstHandler(m) ==
  IF \A i \in 1..Len(Precedence) : Precedence[i] \notin m THEN "none"
  ELSE LET first == CHOOSE i \in 1..Len(Precedence) :
                      /\ Precedence[i] \in m
                      /\ \A j \in 1..(i - 1) : Precedence[j] \notin m
       IN  HandlerOf(Precedence[first])

C19_OfferPersistsNothing ==
  [][/\ \A fault \in Faults, delivered \in BOOLEAN :
          ( /\ ConsumeComment(fault, delivered)
            /\ ByUser(NextComment)
            /\ "$loan" \in NextComment.markers )
          => /\ loans' = loans
             /\ users' = users
             /\ nextId' = nextId
     /\ DOMAIN loans' # DOMAIN loans
          => /\ \E fault \in Faults, delivered \in BOOLEAN :
                  ConsumeComment(fault, delivered)
             /\ ByUser(NextComment)
             /\ "$confirm" \in NextComment.markers
             /\ "$loan" \notin NextComment.markers
     /\ \A delivered \in BOOLEAN :
          ( /\ ConsumeComment("none", delivered)
            /\ ByUser(NextComment)
            /\ "$confirm" \in NextComment.markers
            /\ "$loan" \notin NextComment.markers )
          => /\ nextId \notin DOMAIN loans
             /\ nextId \in DOMAIN loans'
             /\ loans'[nextId].lender = Lower(WorkerToken)
             /\ loans'[nextId].borrower = Lower(NextComment.author)]_vars

\* a Confirm with no Offer before it created a loan, and the Offer that
\* came after it was answered and stored nothing
C19_Witness ==
  /\ reply = "offer"
  /\ cursor.comments = 2
  /\ listing.comments[1].markers = {"$confirm"}
  /\ listing.comments[2].markers = {"$loan"}
  /\ handled.comments = <<1, 1>>
  /\ DOMAIN loans = {1}
  /\ users["bob"].loans_as_lender = 1

\* ---- C20
\* C20: an Offer under a post without author, or by the author of the
\* post, fails silently: no reply, no change of loans or users, and no
\* error leaves the Offer handler.
C20_OfferFailsSilently ==
  [][\A fault \in Faults, delivered \in BOOLEAN :
       ( /\ ConsumeComment(fault, delivered)
         /\ ByUser(NextComment)
         /\ "$loan" \in NextComment.markers
         /\ \/ NextComment.post_author = NoAuthor
            \/ Lower(NextComment.post_author) = Lower(NextComment.author) )
       => /\ reply' = NoReply
          /\ loans' = loans
          /\ users' = users
          /\ worker'.comments = "streaming"]_vars

\* ---------------------------------------------------------------------
\* Aggregates against the loans table
\* ---------------------------------------------------------------------

\* every username that appears in the store
LedgerUsers ==
  DOMAIN users \cup {loans[id].lender : id \in DOMAIN loans}
               \cup {loans[id].borrower : id \in DOMAIN loans}

RECURSIVE SumOver(_, _, _)
\* the sum of field f (a function from loan id to number) over the ids S
SumOver(l, f, S) ==
  IF S = {} THEN 0
  ELSE LET id == CHOOSE x \in S : TRUE
       IN  f[id] + SumOver(l, f, S \ {id})

\* the loans that still count: every status but "refunded"
LiveAsLender(u) ==
  {id \in DOMAIN loans : loans[id].lender = u /\ loans[id].status # "refunded"}

LiveAsBorrower(u) ==
  {id \in DOMAIN loans : loans[id].borrower = u /\ loans[id].status # "refunded"}

Principal == [id \in DOMAIN loans |-> loans[id].amount]

RepaidOf == [id \in DOMAIN loans |-> loans[id].amount_repaid]

\* C21: after any sequence of Confirm, Paid and Refund commands every
\* user's incremental aggregates agree with the loan rows: loans_as_lender
\* is the number of non-refunded loans the user lent and amount_lent the
\* sum of their principals, and the same for loans_as_borrower and
\* amount_borrowed
C21_AggregatesAgree ==
  \A u \in LedgerUsers :
    /\ Row(users, u).loans_as_lender = Cardinality(LiveAsLender(u))
    /\ Row(users, u).amount_lent = SumOver(loans, Principal, LiveAsLender(u))
    /\ Row(users, u).loans_as_borrower = Cardinality(LiveAsBorrower(u))
    /\ Row(users, u).amount_borrowed
         = SumOver(loans, Principal, LiveAsBorrower(u))

\* C25: a loan row is never deleted and its identity is fixed: every
\* step keeps every row that existed, with the same lender, borrower,
\* principal, currency and creation time, and a new row takes an id that
\* no row had
C25_LoansKeptIdentityFixed ==
  [][/\ \A id \in DOMAIN loans :
          /\ id \in DOMAIN loans'
          /\ loans'[id].lender = loans[id].lender
          /\ loans'[id].borrower = loans[id].borrower
          /\ loans'[id].amount = loans[id].amount
          /\ loans'[id].currency = loans[id].currency
          /\ loans'[id].date_created = loans[id].date_created
     /\ \A id \in DOMAIN loans' \ DOMAIN loans :
          /\ id >= nextId
          /\ nextId' > id]_vars

\* C25, the case: a loan that a Paid and then a Refund have changed
C25_Witness ==
  \E id \in DOMAIN loans :
    /\ loans[id].status = "refunded"
    /\ loans[id].amount_repaid > 0
    /\ loans[id].amount = 2
    /\ reply = "refunded"

\* C26: in every reachable state both the lender and the borrower of every
\* loan row have a users row, so the UPDATE statements of Paid and Refund
\* never run against a missing row
C26_UsersRowsExist ==
  \A id \in DOMAIN loans :
    /\ loans[id].lender \in DOMAIN users
    /\ loans[id].borrower \in DOMAIN users

\* C26, the case: a Paid has updated the users row of a loan's borrower
C26_Witness ==
  \E id \in DOMAIN loans :
    /\ reply = "paid"
    /\ loans[id].amount_repaid > 0
    /\ users[loans[id].borrower].amount_repaid > 0

C24_ReadOnlyChangeNothing ==
  [][/\ \A username \in PostAuthors, fault \in Faults :
          ConsumePost(username, fault)
          => /\ loans' = loans
             /\ users' = users
             /\ nextId' = nextId
     /\ \A fault \in Faults, delivered \in BOOLEAN :
          ( /\ ConsumeComment(fault, delivered)
            /\ Dispatch(NextComment) = "stats" )
          => /\ loans' = loans
             /\ users' = users
             /\ nextId' = nextId]_vars

\* C24, the case: with a loan in the store the comment worker has answered
\* a $stats query and the post worker has reported on a post
C24_Witness ==
  /\ reply = "stats"
  /\ DOMAIN loans = {1}
  /\ handled.submissions = <<1>>
  /\ generate_user_info(loans, users, "alice", "none").loans_as_borrower = 1
  /\ generate_user_info(loans, users, "Carol", "none") = "no_history"

\* ---------------------------------------------------------------------
\* Replies after the commit
\* ---------------------------------------------------------------------

\* the replies that report a committed command
SuccessReplies == {"confirmed", "paid", "refunded"}

\* C22: a reply that cannot be delivered neither undoes nor repeats a
\* committed change.  A connection gets to its reply only by its commit,
\* with nothing left uncommitted; a success reply, a confirm reply among
\* the bot's comments and a message to the moderators come only from a
\* connection that is at its reply; and the reply step, delivered or not,
\* leaves loans, users and the id sequence as the commit made them, keeps
\* the command's loan row and ends the handler.
C22_ReplyFailureKeepsCommit ==
  [][/\ \A p \in Conns :
          (conns[p].pc # "reply" /\ conns'[p].pc = "reply")
          => /\ conns[p].pc = "commit"
             /\ conns'[p].wl = << >>
             /\ conns'[p].wu = << >>
     /\ ( \/ reply' \in SuccessReplies /\ reply' # reply
          \/ botComments' # botComments
          \/ modmail' # NoModMessage /\ modmail' # modmail )
          => \E p \in Conns : conns[p].pc = "reply"
     /\ \A p \in Conns :
          (conns[p].pc = "reply" /\ conns'[p].pc # "reply")
          => /\ loans' = loans
             /\ users' = users
             /\ nextId' = nextId
             /\ conns[p].id \in DOMAIN loans'
             /\ conns'[p] = Idle]_vars

\* C22, the case: the reply to a committed Confirm could not be delivered:
\* the loan and both users rows are in the tables, the bot has no comment,
\* and no connection has anything in progress
C22_Witness ==
  /\ reply = "confirmed"
  /\ botComments = {}
  /\ DOMAIN loans = {1}
  /\ users[loans[1].lender].loans_as_lender = 1
  /\ users[loans[1].borrower].loans_as_borrower = 1
  /\ nextId = 2
  /\ \A p \in Conns : conns[p] = Idle

\* C23: every Refund that commits tells the moderators, also when the
\* reply to the refunding comment cannot be delivered: when the handler of
\* a committed Refund has finished, the message about its loan is sent.
C23_RefundTellsModerators ==
  [][\A p \in Conns :
       ( /\ conns[p].pc = "reply"
         /\ conns[p].kind = "refund"
         /\ conns'[p] = Idle )
       => modmail' = {conns[p].id}]_vars

====
